---- MODULE Spec2Model ----
(***************************************************************************)
(* k8-namespace-reaper (src/main.go): the selection / probing / reaping    *)
(* cycle and the loop of main that repeats it.                             *)
(*                                                                         *)
(* Strings that the program inspects character by character (namespace     *)
(* names, the name pattern, annotation values, the comma separated label   *)
(* flag) are tuples of one-character strings.  Durations and instants are  *)
(* integers in one common unit.                                            *)
(***************************************************************************)
EXTENDS Integers, Sequences, FiniteSets, TLC

VARIABLES
    namespaceLabels,              \* flag --namespace-labels
    namespaceRegexp,              \* flag --namespace-regexp
    namespaceLastUsedAnnotation,  \* flag --namespace-last-used-annotation
    reapAfter,                    \* flag --reap-after
    runOnce,                      \* flag --run-once
    cluster,                      \* namespaces held by the API server, in listing order
    now,                          \* the clock read by timeNow
    pc,                           \* position of the main goroutine
    exitCode,                     \* argument of os.Exit, NoExit while running
    exitBy,                       \* which os.Exit call ended the process
    httpUp,                       \* the ListenAndServe goroutine has been started
    namespaces,                   \* run: result of getNamespaces
    activeNamespaces,             \* run: result of getActiveNamespaces
    err,                          \* run: the error it returns
    metricReapedTotal,            \* counter reaped_total
    metricErrorsTotal,            \* counter errors_total
    metricError,                  \* gauge error
    cycles,                       \* history: iterations of the loop of main started
    atStart,                      \* history: the two counters when this cycle began
    listCalls,                    \* history: Namespaces().List calls issued
    listFailed,                   \* history: a List call of this cycle failed
    deleteCalls,                  \* history: Namespaces().Delete calls of the run in progress
    failedDeletes,                \* history: Delete calls of this cycle that failed
    okTotal,                      \* history: Delete calls that succeeded since start
    failTotal,                    \* history: Delete calls that failed since start
    podActive,                    \* history: names with pod samples the query evaluated
    probeResult                   \* history: what the backend answered in this cycle

vars == <<namespaceLabels, namespaceRegexp, namespaceLastUsedAnnotation, reapAfter,
          runOnce, cluster, now, pc, exitCode, exitBy, httpUp, namespaces,
          activeNamespaces, err, metricReapedTotal, metricErrorsTotal, metricError,
          cycles, atStart, listCalls, listFailed, deleteCalls, failedDeletes, okTotal,
          failTotal, podActive, probeResult>>

config == <<namespaceLabels, namespaceRegexp, namespaceLastUsedAnnotation, reapAfter, runOnce>>
metrics == <<metricReapedTotal, metricErrorsTotal, metricError>>

(***************************************************************************)
(* Bounds                                                                  *)
(***************************************************************************)
MaxCycles == 2

(***************************************************************************)
(* Program constants                                                       *)
(***************************************************************************)
lastUsedThreshold == 1
interval == 1

NoExit == -1

(***************************************************************************)
(* Helpers on sequences                                                    *)
(***************************************************************************)
Range(s) == {s[i] : i \in DOMAIN s}

RECURSIVE SetToSeq(_)
SetToSeq(S) ==
    IF S = {} THEN <<>>
    ELSE LET x == CHOOSE y \in S : TRUE IN <<x>> \o SetToSeq(S \ {x})

(***************************************************************************)
(* strings.Split(s, ","): the fields of s between separators; the empty    *)
(* string yields one empty field.                                          *)
(***************************************************************************)
RECURSIVE SplitFrom(_, _, _, _)
SplitFrom(s, i, cur, acc) ==
    IF i > Len(s) THEN Append(acc, cur)
    ELSE IF s[i] = "," THEN SplitFrom(s, i + 1, <<>>, Append(acc, cur))
    ELSE SplitFrom(s, i + 1, Append(cur, s[i]), acc)

Split(s) == SplitFrom(s, 1, <<>>, <<>>)

(***************************************************************************)
(* regexp.MatchString: the pattern (literal characters and the wildcard    *)
(* ".") matches if some substring of the name matches it.                  *)
(***************************************************************************)
MatchAt(pattern, name, i) ==
    /\ i + Len(pattern) - 1 <= Len(name)
    /\ \A j \in 1..Len(pattern) : pattern[j] = "." \/ pattern[j] = name[i + j - 1]

MatchString(pattern, name) ==
    \E i \in 1..(Len(name) + 1) : MatchAt(pattern, name, i)

(***************************************************************************)
(* The label matcher namespace=~"pattern" of the query: the backend        *)
(* matches the whole label value against the pattern.                      *)
(***************************************************************************)
QueryFilterMatch(pattern, name) ==
    Len(name) = Len(pattern) /\ MatchAt(pattern, name, 1)

(***************************************************************************)
(* strconv.ParseInt(val, 10, 64): an optional sign, then one or more       *)
(* decimal digits; anything else is an error.                              *)
(***************************************************************************)
Digits == <<"0", "1", "2", "3", "4", "5", "6", "7", "8", "9">>
IsDigit(c) == \E d \in 1..10 : Digits[d] = c
DigitVal(c) == (CHOOSE d \in 1..10 : Digits[d] = c) - 1

RECURSIVE ParseDigits(_, _, _)
ParseDigits(val, i, acc) ==
    IF i > Len(val) THEN acc
    ELSE ParseDigits(val, i + 1, 10 * acc + DigitVal(val[i]))

ParseInt(val) ==
    LET signed == Len(val) > 0 /\ val[1] \in {"+", "-"}
        body == IF signed THEN Tail(val) ELSE val
        ok == Len(body) > 0 /\ \A i \in 1..Len(body) : IsDigit(body[i])
        n == IF ok THEN ParseDigits(body, 1, 0) ELSE 0
    IN [ok |-> ok, sec |-> IF signed /\ val[1] = "-" THEN 0 - n ELSE n]

\* Variant: the search starts at the second element.
sliceContainsSkipsFirst(slice, str) == \E i \in 2..Len(slice) : slice[i] = str

sliceContains(slice, str) == \E i \in 1..Len(slice) : slice[i] = str

(***************************************************************************)
(* Namespaces().List with ListOptions{LabelSelector: selector}: the empty  *)
(* selector lists every namespace, a selector lists those carrying it.     *)
(***************************************************************************)
HasLabel(selector, ns) == selector = <<>> \/ selector \in ns.labels

RECURSIVE SelectLabel(_, _)
SelectLabel(items, selector) ==
    IF items = <<>> THEN <<>>
    ELSE (IF HasLabel(selector, Head(items)) THEN <<Head(items)>> ELSE <<>>)
             \o SelectLabel(Tail(items), selector)

List(selector) == SelectLabel(cluster, selector)

(***************************************************************************)
(* timeNow: the k-th read of the clock since the cycle began.  The clock   *)
(* may advance by one unit while the namespaces are processed; tickAt is   *)
(* the first read that sees the advanced clock (tickAt = the number of     *)
(* reads: no read sees it).                                                *)
(***************************************************************************)
timeNow(k, tickAt) == IF k >= tickAt THEN now + 1 ELSE now

(***************************************************************************)
(* getNamespaces, the inner loop over ns.Items (main.go 240-267).          *)
(***************************************************************************)
\* Variant: a namespace whose age equals the threshold is skipped.
RECURSIVE filterItemsStrictAge(_, _, _, _)
filterItemsStrictAge(items, acc, k, tickAt) ==
    IF items = <<>> THEN [out |-> acc, k |-> k]
    ELSE
      LET namespace == Head(items)
          rest == Tail(items)
          currentAge == timeNow(k, tickAt) - namespace.created
      IN
      IF namespaceRegexp # <<>> /\ ~MatchString(namespaceRegexp, namespace.name)
      THEN filterItemsStrictAge(rest, acc, k, tickAt)
      ELSE IF currentAge <= reapAfter
      THEN filterItemsStrictAge(rest, acc, k + 1, tickAt)
      ELSE IF namespaceLastUsedAnnotation # ""
              /\ namespaceLastUsedAnnotation \in DOMAIN namespace.annotations
      THEN
        LET parsed == ParseInt(namespace.annotations[namespaceLastUsedAnnotation])
            timeSinceLastUsed == timeNow(k + 1, tickAt) - parsed.sec
        IN
        IF ~parsed.ok
        THEN filterItemsStrictAge(rest, acc, k + 1, tickAt)
        ELSE IF timeSinceLastUsed < lastUsedThreshold
        THEN filterItemsStrictAge(rest, acc, k + 2, tickAt)
        ELSE filterItemsStrictAge(rest, Append(acc, namespace.name), k + 2, tickAt)
      ELSE filterItemsStrictAge(rest, Append(acc, namespace.name), k + 1, tickAt)

\* Variant: a namespace whose annotation does not parse is kept.
RECURSIVE filterItemsKeepsUnparsable(_, _, _, _)
filterItemsKeepsUnparsable(items, acc, k, tickAt) ==
    IF items = <<>> THEN [out |-> acc, k |-> k]
    ELSE
      LET namespace == Head(items)
          rest == Tail(items)
          currentAge == timeNow(k, tickAt) - namespace.created
      IN
      IF namespaceRegexp # <<>> /\ ~MatchString(namespaceRegexp, namespace.name)
      THEN filterItemsKeepsUnparsable(rest, acc, k, tickAt)
      ELSE IF currentAge < reapAfter
      THEN filterItemsKeepsUnparsable(rest, acc, k + 1, tickAt)
      ELSE IF namespaceLastUsedAnnotation # ""
              /\ namespaceLastUsedAnnotation \in DOMAIN namespace.annotations
      THEN
        LET parsed == ParseInt(namespace.annotations[namespaceLastUsedAnnotation])
            timeSinceLastUsed == timeNow(k + 1, tickAt) - parsed.sec
        IN
        IF ~parsed.ok
        THEN filterItemsKeepsUnparsable(rest, Append(acc, namespace.name), k + 1, tickAt)
        ELSE IF timeSinceLastUsed < lastUsedThreshold
        THEN filterItemsKeepsUnparsable(rest, acc, k + 2, tickAt)
        ELSE filterItemsKeepsUnparsable(rest, Append(acc, namespace.name), k + 2, tickAt)
      ELSE filterItemsKeepsUnparsable(rest, Append(acc, namespace.name), k + 1, tickAt)

RECURSIVE filterItems(_, _, _, _)
filterItems(items, acc, k, tickAt) ==
    IF items = <<>> THEN [out |-> acc, k |-> k]
    ELSE
      LET namespace == Head(items)
          rest == Tail(items)
          currentAge == timeNow(k, tickAt) - namespace.created
      IN
      IF namespaceRegexp # <<>> /\ ~MatchString(namespaceRegexp, namespace.name)
      THEN filterItems(rest, acc, k, tickAt)
      ELSE IF currentAge < reapAfter
      THEN filterItems(rest, acc, k + 1, tickAt)
      ELSE IF namespaceLastUsedAnnotation # ""
              /\ namespaceLastUsedAnnotation \in DOMAIN namespace.annotations
      THEN
        LET parsed == ParseInt(namespace.annotations[namespaceLastUsedAnnotation])
            timeSinceLastUsed == timeNow(k + 1, tickAt) - parsed.sec
        IN
        IF ~parsed.ok
        THEN filterItems(rest, acc, k + 1, tickAt)
        ELSE IF timeSinceLastUsed < lastUsedThreshold
        THEN filterItems(rest, acc, k + 2, tickAt)
        ELSE filterItems(rest, Append(acc, namespace.name), k + 2, tickAt)
      ELSE filterItems(rest, Append(acc, namespace.name), k + 1, tickAt)

(***************************************************************************)
(* getNamespaces, the loop over nsLabels (main.go 228-268).  failAt is the *)
(* List call that returns an error, 0 when none does.                      *)
(***************************************************************************)
\* Variant: only the first label selector is listed.
RECURSIVE listLabelsFirstOnly(_, _, _, _, _, _)
listLabelsFirstOnly(nsLabels, i, acc, k, failAt, tickAt) ==
    IF i > Len(nsLabels) \/ i > 1
    THEN [namespaces |-> acc, err |-> "nil", k |-> k, calls |-> i - 1]
    ELSE
      LET label == nsLabels[i]
          LabelSelector == IF label # <<"all">> THEN label ELSE <<>>
      IN
      IF failAt = i
      THEN [namespaces |-> <<>>, err |-> "list", k |-> k, calls |-> i]
      ELSE LET r == filterItems(List(LabelSelector), acc, k, tickAt)
           IN listLabelsFirstOnly(nsLabels, i + 1, r.out, r.k, failAt, tickAt)

RECURSIVE listLabels(_, _, _, _, _, _)
listLabels(nsLabels, i, acc, k, failAt, tickAt) ==
    IF i > Len(nsLabels)
    THEN [namespaces |-> acc, err |-> "nil", k |-> k, calls |-> i - 1]
    ELSE
      LET label == nsLabels[i]
          LabelSelector == IF label # <<"all">> THEN label ELSE <<>>
      IN
      IF failAt = i
      THEN [namespaces |-> <<>>, err |-> "list", k |-> k, calls |-> i]
      ELSE LET r == filterItems(List(LabelSelector), acc, k, tickAt)
           IN listLabels(nsLabels, i + 1, r.out, r.k, failAt, tickAt)

\* Variant: a failed List is logged and the names gathered so far are returned.
getNamespacesKeepsGoing(failAt, tickAt) ==
    LET r == listLabels(Split(namespaceLabels), 1, <<>>, 0, 0, tickAt)
    IN [r EXCEPT !.err = "nil"]

\* Variant: the selector remembers that it has run and returns candidates
\* only on its first call.
getNamespacesFirstCallOnly(failAt, tickAt) ==
    LET split == Split(namespaceLabels)
        nsLabels == IF Len(split) = 0 THEN <<<<"all">>>> ELSE split
        r == listLabels(nsLabels, 1, <<>>, 0, failAt, tickAt)
    IN IF cycles >= 1 THEN [r EXCEPT !.namespaces = <<>>] ELSE r

getNamespaces(failAt, tickAt) ==
    LET split == Split(namespaceLabels)
        nsLabels == IF Len(split) = 0 THEN <<<<"all">>>> ELSE split
    IN listLabels(nsLabels, 1, <<>>, 0, failAt, tickAt)

(***************************************************************************)
(* validateArgs (main.go 190-199): the list of errors.                     *)
(***************************************************************************)
\* Variant: both flags are required.
validateArgsNeedsBoth ==
    IF namespaceLabels = <<>> \/ namespaceRegexp = <<>>
    THEN <<"Must provide either namespaces labels or namespace regexp">>
    ELSE <<>>

validateArgs ==
    IF namespaceLabels = <<>> /\ namespaceRegexp = <<>>
    THEN <<"Must provide either namespaces labels or namespace regexp">>
    ELSE <<>>

(***************************************************************************)
(* The metrics backend evaluating the query of main.go 285-291: one sample *)
(* per namespace that had pod samples in the lookback window, restricted   *)
(* by the label matcher when a name pattern is configured.  unlabelled     *)
(* adds a sample that carries no namespace label.                          *)
(***************************************************************************)
InQueryScope(name) ==
    namespaceRegexp = <<>> \/ QueryFilterMatch(namespaceRegexp, name)

Sample(name) == [Metric |-> ("namespace" :> name)]
NoLabelSample == [Metric |-> <<>>]

RECURSIVE Samples(_)
Samples(names) ==
    IF names = <<>> THEN <<>> ELSE <<Sample(Head(names))>> \o Samples(Tail(names))

Query(pods, unlabelled) ==
    Samples(SetToSeq({n \in pods : InQueryScope(n)}))
        \o (IF unlabelled /\ InQueryScope(<<>>) THEN <<NoLabelSample>> ELSE <<>>)

(***************************************************************************)
(* getActiveNamespaces (main.go 272-311).  answer is what the backend      *)
(* does: "clienterr" (api.NewClient fails), "queryerr" (the query fails or *)
(* times out), "vector", or "other" (a result that is not a vector).       *)
(***************************************************************************)
RECURSIVE vectorNamespaces(_, _)
vectorNamespaces(vector, acc) ==
    IF vector = <<>> THEN acc
    ELSE LET vec == Head(vector)
         IN IF "namespace" \in DOMAIN vec.Metric
            THEN vectorNamespaces(Tail(vector), Append(acc, vec.Metric["namespace"]))
            ELSE vectorNamespaces(Tail(vector), acc)

\* Variant: a failed query is logged and an empty list returned.
getActiveNamespacesDropsError(answer, pods, unlabelled) ==
    IF answer = "vector"
    THEN [namespaces |-> vectorNamespaces(Query(pods, unlabelled), <<>>), err |-> "nil"]
    ELSE [namespaces |-> <<>>, err |-> "nil"]

getActiveNamespaces(answer, pods, unlabelled) ==
    IF answer = "clienterr" THEN [namespaces |-> <<>>, err |-> "client"]
    ELSE
      LET queryErr == IF answer = "queryerr" THEN "query" ELSE "nil"
      IN
      IF queryErr # "nil" THEN [namespaces |-> <<>>, err |-> queryErr]
      ELSE IF answer = "vector"
      THEN [namespaces |-> vectorNamespaces(Query(pods, unlabelled), <<>>), err |-> "nil"]
      ELSE [namespaces |-> <<>>, err |-> queryErr]

(***************************************************************************)
(* reap (main.go 313-335).  fails is the set of positions of the candidate *)
(* list whose Delete call returns an error.                                *)
(***************************************************************************)
\* Variant: the loop ends at the first Delete that fails.
RECURSIVE reapLoopStopsAtError(_, _, _, _, _)
reapLoopStopsAtError(nss, i, active, fails, st) ==
    IF i > Len(nss) THEN st
    ELSE
      LET namespace == nss[i] IN
      IF sliceContains(active, namespace)
      THEN reapLoopStopsAtError(nss, i + 1, active, fails, st)
      ELSE IF i \in fails
      THEN [st EXCEPT !.errCount = @ + 1,
                      !.errorsTotal = @ + 1,
                      !.calls = Append(@, [name |-> namespace, ok |-> FALSE])]
      ELSE reapLoopStopsAtError(nss, i + 1, active, fails,
              [st EXCEPT !.reaped = @ + 1,
                         !.reapedTotal = @ + 1,
                         !.calls = Append(@, [name |-> namespace, ok |-> TRUE])])

\* Variant: a skipped active namespace is counted as reaped.
RECURSIVE reapLoopCountsSkipped(_, _, _, _, _)
reapLoopCountsSkipped(nss, i, active, fails, st) ==
    IF i > Len(nss) THEN st
    ELSE
      LET namespace == nss[i] IN
      IF sliceContains(active, namespace)
      THEN reapLoopCountsSkipped(nss, i + 1, active, fails,
              [st EXCEPT !.reaped = @ + 1, !.reapedTotal = @ + 1])
      ELSE IF i \in fails
      THEN reapLoopCountsSkipped(nss, i + 1, active, fails,
              [st EXCEPT !.errCount = @ + 1,
                         !.errorsTotal = @ + 1,
                         !.calls = Append(@, [name |-> namespace, ok |-> FALSE])])
      ELSE reapLoopCountsSkipped(nss, i + 1, active, fails,
              [st EXCEPT !.reaped = @ + 1,
                         !.reapedTotal = @ + 1,
                         !.calls = Append(@, [name |-> namespace, ok |-> TRUE])])

RECURSIVE reapLoop(_, _, _, _, _)
reapLoop(nss, i, active, fails, st) ==
    IF i > Len(nss) THEN st
    ELSE
      LET namespace == nss[i] IN
      IF sliceContains(active, namespace)
      THEN reapLoop(nss, i + 1, active, fails, st)
      ELSE IF i \in fails
      THEN reapLoop(nss, i + 1, active, fails,
              [st EXCEPT !.errCount = @ + 1,
                         !.errorsTotal = @ + 1,
                         !.calls = Append(@, [name |-> namespace, ok |-> FALSE])])
      ELSE reapLoop(nss, i + 1, active, fails,
              [st EXCEPT !.reaped = @ + 1,
                         !.reapedTotal = @ + 1,
                         !.calls = Append(@, [name |-> namespace, ok |-> TRUE])])

reap(nss, active, fails) ==
    reapLoop(nss, 1, active, fails,
             [reaped |-> 0, errCount |-> 0, reapedTotal |-> metricReapedTotal,
              errorsTotal |-> metricErrorsTotal, calls |-> <<>>])

(***************************************************************************)
(* The API server after the Delete calls: a namespace whose Delete         *)
(* succeeded is gone.                                                      *)
(***************************************************************************)
Deleted(calls) == {calls[i].name : i \in {j \in DOMAIN calls : calls[j].ok}}

RECURSIVE Remove(_, _)
Remove(items, names) ==
    IF items = <<>> THEN <<>>
    ELSE (IF Head(items).name \in names THEN <<>> ELSE <<Head(items)>>)
             \o Remove(Tail(items), names)

(***************************************************************************)
(* The configurations and the cluster the process is started with.         *)
(***************************************************************************)
LabelFlags == { <<>>, <<"x">>, <<"x", ",", "y">>, <<"x", ",">>, <<"all">> }
RegexpFlags == { <<>>, <<"u">> }
AnnotationFlags == { "", "k" }
ReapAfterFlags == { 1, 2 }

\* Three namespaces in the manner of the fixture of main_test.go: one that
\* carries both labels and no annotation, one with a numeric last-used
\* annotation, one without labels whose annotation does not parse.  The
\* names are chosen so that the pattern "u" matches one of them as a whole,
\* one only as a substring, and one not at all.
InitialCluster ==
    << [name |-> <<"u">>, labels |-> {<<"x">>, <<"y">>}, created |-> 0,
        annotations |-> <<>>],
       [name |-> <<"x", "u">>, labels |-> {<<"x">>}, created |-> 1,
        annotations |-> ("k" :> <<"2">>)],
       [name |-> <<"x">>, labels |-> {}, created |-> 1,
        annotations |-> ("k" :> <<"f">>)] >>

StartTime == 2

PodNames == {InitialCluster[i].name : i \in DOMAIN InitialCluster}
Answers == {"clienterr", "queryerr", "vector", "other"}

Init ==
    /\ namespaceLabels \in LabelFlags
    /\ namespaceRegexp \in RegexpFlags
    /\ namespaceLastUsedAnnotation \in AnnotationFlags
    /\ reapAfter \in ReapAfterFlags
    /\ runOnce \in BOOLEAN
    /\ cluster = InitialCluster
    /\ now = StartTime
    /\ pc = "validate"
    /\ exitCode = NoExit
    /\ exitBy = "none"
    /\ httpUp = FALSE
    /\ namespaces = <<>>
    /\ activeNamespaces = <<>>
    /\ err = "nil"
    /\ metricReapedTotal = 0
    /\ metricErrorsTotal = 0
    /\ metricError = 0
    /\ cycles = 0
    /\ atStart = [reaped |-> 0, errors |-> 0]
    /\ listCalls = 0
    /\ listFailed = FALSE
    /\ deleteCalls = <<>>
    /\ failedDeletes = 0
    /\ okTotal = 0
    /\ failTotal = 0
    /\ podActive = {}
    /\ probeResult = "none"

progress == <<cycles, atStart, listCalls, listFailed, failedDeletes, okTotal, failTotal, probeResult>>
history == <<progress, deleteCalls, podActive>>

(***************************************************************************)
(* os.Exit(code): the process and the locals of a run in progress are gone.*)
(***************************************************************************)
Exit(code, by) ==
    /\ pc' = "exited"
    /\ exitCode' = code
    /\ exitBy' = by
    /\ namespaces' = <<>>
    /\ activeNamespaces' = <<>>
    /\ deleteCalls' = <<>>
    /\ podActive' = {}

RunLocals == <<namespaces, activeNamespaces, deleteCalls, podActive>>

(***************************************************************************)
(* main, 114-116: validateArgs, exit on error.                             *)
(***************************************************************************)
Validate ==
    /\ pc = "validate"
    /\ IF validateArgs # <<>>
       THEN Exit(1, "validate")
       ELSE pc' = "setup" /\ UNCHANGED <<exitCode, exitBy, RunLocals>>
    /\ UNCHANGED <<config, cluster, now, httpUp, err, metrics, progress>>

(***************************************************************************)
(* main, 118-157: load the kubeconfig and build the clientset (exit 1 when *)
(* either fails), then start the goroutine that serves HTTP.               *)
(***************************************************************************)
Setup ==
    /\ pc = "setup"
    /\ \E ok \in BOOLEAN :
         IF ok
         THEN pc' = "select" /\ httpUp' = TRUE /\ UNCHANGED <<exitCode, exitBy, RunLocals>>
         ELSE Exit(1, "setup") /\ UNCHANGED httpUp
    /\ UNCHANGED <<config, cluster, now, err, metrics, progress>>

(***************************************************************************)
(* main 159-162 and run 201-206: a cycle begins and calls getNamespaces.   *)
(***************************************************************************)
GetNamespaces ==
    /\ pc = "select"
    /\ \E failAt \in 0..Len(Split(namespaceLabels)),
          tickAt \in 0..(2 * Len(cluster) * Len(Split(namespaceLabels))) :
         LET r == getNamespaces(failAt, tickAt) IN
         /\ tickAt <= r.k
         /\ namespaces' = r.namespaces
         /\ err' = r.err
         /\ listCalls' = listCalls + r.calls
         /\ listFailed' = (failAt # 0)
         /\ now' = IF tickAt < r.k THEN now + 1 ELSE now
         /\ pc' = IF r.err # "nil" THEN "finish" ELSE "probe"
    /\ cycles' = cycles + 1
    /\ atStart' = [reaped |-> metricReapedTotal, errors |-> metricErrorsTotal]
    /\ activeNamespaces' = <<>>
    /\ deleteCalls' = <<>>
    /\ failedDeletes' = 0
    /\ podActive' = {}
    /\ probeResult' = "none"
    /\ UNCHANGED <<config, cluster, exitCode, exitBy, httpUp, metrics, okTotal, failTotal>>

(***************************************************************************)
(* run 207-211: getActiveNamespaces.                                       *)
(***************************************************************************)
GetActiveNamespaces ==
    /\ pc = "probe"
    /\ \E answer \in Answers :
       \E pods \in (IF answer = "vector" THEN SUBSET PodNames ELSE {{}}),
          unlabelled \in (IF answer = "vector" THEN BOOLEAN ELSE {FALSE}) :
         LET r == getActiveNamespaces(answer, pods, unlabelled) IN
         /\ activeNamespaces' = r.namespaces
         /\ err' = r.err
         /\ podActive' = pods
         /\ probeResult' = answer
         /\ pc' = IF r.err # "nil" THEN "finish" ELSE "reap"
    /\ UNCHANGED <<config, cluster, now, exitCode, exitBy, httpUp, namespaces, metrics,
                   cycles, atStart, listCalls, listFailed, deleteCalls, failedDeletes, okTotal,
                   failTotal>>

(***************************************************************************)
(* run 212-218: reap, and the error made of its count.                     *)
(***************************************************************************)
Count(calls, ok) == Cardinality({i \in DOMAIN calls : calls[i].ok = ok})

Reap ==
    /\ pc = "reap"
    /\ \E fails \in SUBSET {i \in 1..Len(namespaces) :
                                ~sliceContains(activeNamespaces, namespaces[i])} :
         LET r == reap(namespaces, activeNamespaces, fails) IN
         /\ metricReapedTotal' = r.reapedTotal
         /\ metricErrorsTotal' = r.errorsTotal
         /\ err' = IF r.errCount > 0 THEN "reap" ELSE "nil"
         /\ deleteCalls' = r.calls
         /\ failedDeletes' = Count(r.calls, FALSE)
         /\ okTotal' = okTotal + Count(r.calls, TRUE)
         /\ failTotal' = failTotal + Count(r.calls, FALSE)
         /\ cluster' = Remove(cluster, Deleted(r.calls))
    /\ pc' = "finish"
    /\ UNCHANGED <<config, now, exitCode, exitBy, httpUp, namespaces, activeNamespaces,
                   metricError, cycles, atStart, listCalls, listFailed, podActive,
                   probeResult>>

(***************************************************************************)
(* main 162-170: run has returned and its locals are gone; set the error   *)
(* gauge; in run-once mode exit with it.                                   *)
(***************************************************************************)
\* Variant: a cycle that returned an error ends the process in loop mode too.
FinishExitsOnError ==
    /\ pc = "finish"
    /\ LET errNum == IF err # "nil" THEN 1 ELSE 0 IN
         /\ metricError' = errNum
         /\ IF runOnce \/ errNum = 1
            THEN Exit(errNum, "main")
            ELSE /\ pc' = "sleep"
                 /\ namespaces' = <<>>
                 /\ activeNamespaces' = <<>>
                 /\ deleteCalls' = <<>>
                 /\ podActive' = {}
                 /\ UNCHANGED <<exitCode, exitBy>>
    /\ UNCHANGED <<config, cluster, now, httpUp, err, metricReapedTotal, metricErrorsTotal,
                   progress>>

Finish ==
    /\ pc = "finish"
    /\ LET errNum == IF err # "nil" THEN 1 ELSE 0 IN
         /\ metricError' = errNum
         /\ IF runOnce
            THEN Exit(errNum, "main")
            ELSE /\ pc' = "sleep"
                 /\ namespaces' = <<>>
                 /\ activeNamespaces' = <<>>
                 /\ deleteCalls' = <<>>
                 /\ podActive' = {}
                 /\ UNCHANGED <<exitCode, exitBy>>
    /\ UNCHANGED <<config, cluster, now, httpUp, err, metricReapedTotal, metricErrorsTotal,
                   progress>>

(***************************************************************************)
(* main 171-173: sleep for the interval, then the next iteration.          *)
(***************************************************************************)
Sleep ==
    /\ pc = "sleep"
    /\ cycles < MaxCycles
    /\ now' = now + interval
    /\ pc' = "select"
    /\ UNCHANGED <<config, cluster, exitCode, exitBy, httpUp, namespaces,
                   activeNamespaces, err, metrics, history>>

(***************************************************************************)
(* main 152-157: ListenAndServe returns an error, the goroutine exits the  *)
(* process.                                                                *)
(***************************************************************************)
\* Variant: the failure of the listener ends the process only while the loop
\* sleeps.
ListenAndServeFailsWhileSleeping ==
    /\ httpUp
    /\ pc = "sleep"
    /\ Exit(1, "http")
    /\ UNCHANGED <<config, cluster, now, httpUp, err, metrics, progress>>

ListenAndServeFails ==
    /\ httpUp
    /\ pc # "exited"
    /\ Exit(1, "http")
    /\ UNCHANGED <<config, cluster, now, httpUp, err, metrics, progress>>

Next ==
    \/ Validate
    \/ Setup
    \/ GetNamespaces
    \/ GetActiveNamespaces
    \/ Reap
    \/ Finish
    \/ Sleep
    \/ ListenAndServeFails

Spec == Init /\ [][Next]_vars

(***************************************************************************)
(* The main goroutine keeps running: every call it makes returns and       *)
(* time.Sleep ends.  Nothing is assumed of the goroutine that serves HTTP. *)
(***************************************************************************)
TypeOK ==
    /\ pc \in {"validate", "setup", "select", "probe", "reap", "finish", "sleep", "exited"}
    /\ exitCode \in {NoExit, 0, 1}
    /\ metricError \in {0, 1}
    /\ cycles \in 0..MaxCycles

(***************************************************************************)
(* Properties                                                              *)
(***************************************************************************)
\* reap has returned and run has not yet returned to main
ReapActed == pc = "finish" /\ err \in {"nil", "reap"}

DeleteNames == {deleteCalls[i].name : i \in DOMAIN deleteCalls}
Candidates == Range(namespaces)
Active == Range(activeNamespaces)
NonActive == SelectSeq(namespaces, LAMBDA n : n \notin Active)

\* C1: reap issues Delete calls for exactly the names of the candidate list
\* that are not in the active list: never for an active name or a name that
\* is not a candidate, and for every candidate that is not active.
C1_ReapDeletesCandidatesMinusActive ==
    /\ DeleteNames \subseteq Candidates \ Active
    /\ ReapActed => DeleteNames = Candidates \ Active

C1_Witness ==
    /\ ReapActed
    /\ DeleteNames # {}
    /\ Candidates \cap Active # {}
    /\ Active \ Candidates # {}

\* C2: when the backend answers with a result that is not a vector,
\* getActiveNamespaces returns an error, so that run returns an error, reap
\* is not reached, no Delete call is issued and reaped_total keeps its value.
C2_UnexpectedResultTypeIsError ==
    probeResult = "other" =>
        /\ err # "nil"
        /\ pc # "reap"
        /\ deleteCalls = <<>>
        /\ failedDeletes = 0
        /\ metricReapedTotal = atStart.reaped

\* C3: when the query fails or times out, run returns an error after the
\* candidates were listed, no Delete call is issued in that cycle and the two
\* counters keep the values they had when the cycle began.
C3_QueryErrorAbortsCycle ==
    probeResult = "queryerr" =>
        /\ ~listFailed
        /\ err # "nil"
        /\ pc # "reap"
        /\ deleteCalls = <<>>
        /\ failedDeletes = 0
        /\ metricReapedTotal = atStart.reaped
        /\ metricErrorsTotal = atStart.errors

C3_Witness ==
    /\ probeResult = "queryerr"
    /\ pc = "finish"
    /\ namespaces # <<>>

\* C4: when a List call fails, for the first or for a later selector,
\* getNamespaces returns an error and no candidates, run returns that error
\* without querying the backend, and no Delete call is issued in that cycle.
C4_ListErrorAbortsCycle ==
    listFailed =>
        /\ err = "list"
        /\ namespaces = <<>>
        /\ pc \notin {"probe", "reap"}
        /\ probeResult = "none"
        /\ activeNamespaces = <<>>
        /\ deleteCalls = <<>>
        /\ failedDeletes = 0
        /\ metricReapedTotal = atStart.reaped
        /\ metricErrorsTotal = atStart.errors

C4_Witness ==
    /\ listFailed
    /\ pc = "finish"
    /\ cycles = 1
    /\ listCalls = 2

\* C5: within one reap, the Delete calls are, in order, one for each candidate
\* that is not active, whichever of them fail: a failed Delete does not keep a
\* later candidate from getting its call.
C5_FailedDeleteDoesNotStopReap ==
    ReapActed =>
        /\ Len(deleteCalls) = Len(NonActive)
        /\ \A k \in 1..Len(deleteCalls) : deleteCalls[k].name = NonActive[k]

C5_Witness ==
    /\ ReapActed
    /\ Len(deleteCalls) >= 2
    /\ ~deleteCalls[1].ok
    /\ deleteCalls[Len(deleteCalls)].ok

\* C6: reaped_total is the number of Delete calls that succeeded and
\* errors_total the number that failed since the process started; one reap
\* raises them by the successes and failures among the Delete calls for its
\* non-active candidates; neither counter decreases.
C6_CountersCountDeleteOutcomes ==
    [][ /\ metricReapedTotal = okTotal
        /\ metricErrorsTotal = failTotal
        /\ metricReapedTotal' = okTotal'
        /\ metricErrorsTotal' = failTotal'
        /\ metricReapedTotal' >= metricReapedTotal
        /\ metricErrorsTotal' >= metricErrorsTotal
        /\ (pc = "reap" /\ pc' = "finish") =>
             /\ metricReapedTotal' - metricReapedTotal = Count(deleteCalls', TRUE)
             /\ metricErrorsTotal' - metricErrorsTotal = Count(deleteCalls', FALSE)
             /\ Count(deleteCalls', TRUE) + Count(deleteCalls', FALSE) = Len(NonActive)
      ]_vars

C6_Witness ==
    /\ ReapActed
    /\ Len(namespaces) = 3
    /\ Cardinality(Candidates) = 3
    /\ Cardinality(Candidates \cap Active) = 1
    /\ metricReapedTotal = atStart.reaped + 2

\* A cycle has completed and no later one has begun
CycleCompleted == (pc \in {"sleep", "select"} /\ cycles >= 1) \/ exitBy = "main"

\* The errors of a cycle: a List call failed, the probe failed (the client
\* could not be built, the query failed or timed out, the result was not a
\* vector), or a Delete call failed.
ProbeFailed == probeResult \in {"clienterr", "queryerr", "other"}
CycleErrored == listFailed \/ ProbeFailed \/ failedDeletes > 0

\* C7: after a cycle has completed the error gauge is 1 if that cycle had an
\* error (listing, probe, or a Delete of that cycle failed) and 0 if it had
\* none, whatever the earlier cycles did.
C7_GaugeTracksLastCycle ==
    CycleCompleted => (metricError = IF CycleErrored THEN 1 ELSE 0)

\* C8: with a name pattern configured, every name that passes the pattern
\* filter of getNamespaces is in the scope of the query, so a candidate with
\* pod activity in the lookback window is in the active list that reap is
\* given and gets no Delete call.
C8_CandidatesWithinQueryScope ==
    namespaceRegexp # <<>> =>
        /\ (ReapActed /\ probeResult = "vector") =>
               Candidates \cap podActive \subseteq Active
        /\ DeleteNames \cap podActive = {}

\* C9: with neither label selector nor name pattern, validateArgs returns an
\* error and the process exits with 1 before the HTTP goroutine, any cycle,
\* any List and any Delete call; with one of the two set validateArgs returns
\* no error and the process does not exit there.
C9_ValidateArgsGuardsStartup ==
    /\ (namespaceLabels = <<>> /\ namespaceRegexp = <<>>) =>
          /\ validateArgs # <<>>
          /\ pc \in {"validate", "exited"}
          /\ pc = "exited" => (exitBy = "validate" /\ exitCode = 1)
          /\ ~httpUp
          /\ cycles = 0
          /\ listCalls = 0
          /\ deleteCalls = <<>>
          /\ okTotal + failTotal = 0
    /\ (namespaceLabels # <<>> \/ namespaceRegexp # <<>>) =>
          /\ validateArgs = <<>>
          /\ exitBy # "validate"

C9_Witness ==
    /\ pc = "exited"
    /\ exitBy = "validate"
    /\ namespaceLabels = <<>>
    /\ namespaceRegexp = <<>>

\* C10: in run-once mode the process never sleeps and never starts a second
\* cycle; the loop of main exits after exactly one cycle, with code 0 if the
\* cycle had no error (listing, probe, failed Delete) and with a nonzero code
\* if it had one.
C10_RunOnceExitsWithCycleResult ==
    runOnce =>
        /\ pc # "sleep"
        /\ cycles <= 1
        /\ exitBy = "main" =>
              /\ cycles = 1
              /\ exitCode = 0 <=> ~CycleErrored

\* C11: in loop mode the loop of main never exits the process, whatever the
\* cycle returned (listing error, probe error, failed Deletes or success):
\* the end of a cycle can always be followed by the sleep and the sleep by the
\* top of the loop, the step after the end of a cycle is the sleep, the step
\* after the sleep is the top of the loop, and the step there begins the next
\* cycle.  Only a failure of the HTTP listener ends the process.
C11_LoopSurvivesCycleErrors ==
    /\ [](~runOnce => exitBy # "main")
    /\ [](~runOnce /\ pc = "finish" => ENABLED Finish)
    /\ [](~runOnce /\ pc = "sleep" /\ cycles < MaxCycles => ENABLED Sleep)
    /\ [][~runOnce /\ pc = "finish" => pc' = "sleep" \/ exitBy' = "http"]_vars
    /\ [][~runOnce /\ pc = "sleep" => pc' = "select" \/ exitBy' = "http"]_vars
    /\ [][~runOnce /\ pc = "select"
            => cycles' = cycles + 1 \/ exitBy' = "http"]_vars

\* A second cycle is under way after a first one that returned an error.
C11_Witness ==
    /\ ~runOnce
    /\ cycles = 2
    /\ pc = "probe"
    /\ metricError = 1

(***************************************************************************)
(* The Selector's filters, as the claims state them.                       *)
(***************************************************************************)
\* A step in which getNamespaces returned a candidate list without error.
SelectorActed == pc = "select" /\ pc' = "probe"

Selectors == {IF l # <<"all">> THEN l ELSE <<>> : l \in Range(Split(namespaceLabels))}
Listed(ns) == \E sel \in Selectors : HasLabel(sel, ns)
PassesPattern(ns) ==
    namespaceRegexp = <<>> \/ MatchString(namespaceRegexp, ns.name)
HasAnnotation(ns) ==
    /\ namespaceLastUsedAnnotation # ""
    /\ namespaceLastUsedAnnotation \in DOMAIN ns.annotations
Items == Range(cluster)

\* C12: a namespace is a candidate only if its age, now - created, is at
\* least reapAfter.  A listed namespace that passes the pattern, has no
\* last-used annotation to check and whose age is at least reapAfter when
\* getNamespaces is called (equal to it included) is a candidate; one that
\* is still younger than reapAfter when getNamespaces returns is not.
C12_AgeThreshold ==
    [][SelectorActed =>
         \A ns \in Items :
            /\ ns.name \in Range(namespaces') => now' - ns.created >= reapAfter
            /\ ( /\ Listed(ns)
                 /\ PassesPattern(ns)
                 /\ ~HasAnnotation(ns)
                 /\ now - ns.created >= reapAfter )
                  => ns.name \in Range(namespaces')]_vars

\* A candidate whose age equals the threshold next to a listed namespace
\* that is younger and is not a candidate.
C12_Witness ==
    /\ pc = "probe"
    /\ \E ns \in Items :
          ns.name \in Candidates /\ now - ns.created = reapAfter
    /\ \E ns \in Items :
          /\ Listed(ns) /\ PassesPattern(ns)
          /\ ns.name \notin Candidates /\ now - ns.created < reapAfter

\* The last-used annotation of ns, parsed (main.go 252).
LastUsed(ns) == ParseInt(ns.annotations[namespaceLastUsedAnnotation])

\* The annotation rule at time t: no annotation, or one that parses and is
\* at least lastUsedThreshold old.
NotRecentlyUsed(ns, t) ==
    \/ ~HasAnnotation(ns)
    \/ LastUsed(ns).ok /\ t - LastUsed(ns).sec >= lastUsedThreshold

\* C13: with a last-used annotation key configured, among the listed
\* namespaces that pass the pattern and the age filter the candidates are
\* those without the annotation and those whose annotation parses and is at
\* least lastUsedThreshold in the past; one whose annotation does not parse
\* is no candidate, and getNamespaces returns an error only when a List
\* call failed.
C13_LastUsedAnnotation ==
    /\ [][SelectorActed /\ namespaceLastUsedAnnotation # "" =>
            \A ns \in Items :
               /\ ns.name \in Range(namespaces') => NotRecentlyUsed(ns, now')
               /\ ( /\ Listed(ns)
                    /\ PassesPattern(ns)
                    /\ now - ns.created >= reapAfter
                    /\ NotRecentlyUsed(ns, now) )
                     => ns.name \in Range(namespaces')]_vars
    /\ [][pc = "select" /\ cycles' = cycles + 1 /\ ~listFailed'
            => err' = "nil" /\ pc' = "probe"]_vars

\* A cycle goes on to the probe with a candidate that has no annotation and
\* one whose annotation is old enough, while a listed namespace whose
\* annotation does not parse is left out.
C13_Witness ==
    /\ pc = "probe"
    /\ err = "nil"
    /\ namespaceLastUsedAnnotation # ""
    /\ \E ns \in Items : ns.name \in Candidates /\ ~HasAnnotation(ns)
    /\ \E ns \in Items :
          /\ ns.name \in Candidates /\ HasAnnotation(ns)
          /\ LastUsed(ns).ok /\ now - LastUsed(ns).sec >= lastUsedThreshold
    /\ \E ns \in Items :
          /\ Listed(ns) /\ PassesPattern(ns) /\ now - ns.created >= reapAfter
          /\ HasAnnotation(ns) /\ ~LastUsed(ns).ok
          /\ ns.name \notin Candidates

\* A listed namespace that was used too recently is left out.
C13_WitnessRecent ==
    /\ pc = "probe"
    /\ \E ns \in Items :
          /\ Listed(ns) /\ PassesPattern(ns) /\ now - ns.created >= reapAfter
          /\ HasAnnotation(ns) /\ LastUsed(ns).ok
          /\ now - LastUsed(ns).sec < lastUsedThreshold
          /\ ns.name \notin Candidates

\* The filters on one namespace at time t (main.go 241-265).
PassesFilters(ns, t) ==
    /\ PassesPattern(ns)
    /\ t - ns.created >= reapAfter
    /\ NotRecentlyUsed(ns, t)

\* C14: the candidates are the namespaces returned by the List call of at
\* least one of the comma-separated selectors that pass the filters: every
\* candidate is returned for some selector and matches the pattern when one
\* is configured, and every namespace returned for any selector that passes
\* the filters is a candidate.  With no label selector there is one List
\* call, without selector, and every namespace of the cluster that passes
\* the filters is a candidate whatever its labels.
C14_UnionOfSelectors ==
    [][SelectorActed =>
         /\ \A n \in Range(namespaces') : \E ns \in Items : ns.name = n
         /\ \A ns \in Items :
               /\ ns.name \in Range(namespaces')
                     => /\ \E sel \in Selectors : HasLabel(sel, ns)
                        /\ PassesPattern(ns)
                        /\ PassesFilters(ns, now')
               /\ \A sel \in Selectors :
                     HasLabel(sel, ns) /\ PassesFilters(ns, now)
                         => ns.name \in Range(namespaces')
         /\ namespaceLabels = <<>> =>
               /\ listCalls' = listCalls + 1
               /\ \A ns \in Items :
                     PassesFilters(ns, now) => ns.name \in Range(namespaces')]_vars

\* Two selectors: one candidate is returned for the first selector, another
\* only for the second.
C14_Witness ==
    /\ pc = "probe"
    /\ Len(Split(namespaceLabels)) = 2
    /\ \E ns \in Items :
          /\ ns.name \in Candidates
          /\ HasLabel(Split(namespaceLabels)[1], ns)
    /\ \E ns \in Items :
          /\ ns.name \in Candidates
          /\ ~HasLabel(Split(namespaceLabels)[1], ns)

\* Selectors and a pattern: a namespace returned for a selector that does
\* not match the pattern is left out.
C14_WitnessBoth ==
    /\ pc = "probe"
    /\ namespaceLabels # <<>>
    /\ namespaceRegexp # <<>>
    /\ Candidates # {}
    /\ \E ns \in Items :
          /\ Listed(ns) /\ ~PassesPattern(ns)
          /\ ns.name \notin Candidates

\* No selector: one unfiltered listing, filtered by the pattern.
C14_WitnessPatternOnly ==
    /\ pc = "probe"
    /\ namespaceLabels = <<>>
    /\ listCalls = cycles
    /\ Candidates # {}
    /\ \E ns \in Items : ~PassesPattern(ns) /\ ns.name \notin Candidates

\* What the annotation filter reads of ns: nothing when no key is configured
\* or ns does not carry it, else the value.
AnnotationValue(ns) ==
    IF HasAnnotation(ns) THEN <<ns.annotations[namespaceLastUsedAnnotation]>>
    ELSE <<>>

\* C15: within one call of getNamespaces two listed namespaces with the same
\* creation timestamp and the same last-used annotation value, both matching
\* the pattern, get the same decision (both candidates or neither), also
\* when the clock advances while the list is processed.
C15_OneTimePerCycle ==
    [][SelectorActed =>
         \A a, b \in Items :
            ( /\ a.created = b.created
              /\ AnnotationValue(a) = AnnotationValue(b)
              /\ Listed(a) /\ Listed(b)
              /\ PassesPattern(a) /\ PassesPattern(b) )
                => (a.name \in Range(namespaces') <=> b.name \in Range(namespaces'))]_vars

\* The Delete calls of the cycle made for name n, by outcome.
CallsFor(n, ok) ==
    {i \in DOMAIN deleteCalls : deleteCalls[i].name = n /\ deleteCalls[i].ok = ok}

\* C16: a cycle makes at most one Delete call per namespace name, a deleted
\* namespace accounts for one successful call and no failed one, and the
\* counters move by the number of deleted namespaces and of namespaces
\* whose deletion failed.
C16_DuplicatesCollapse ==
    ReapActed =>
        /\ \A i, j \in DOMAIN deleteCalls :
              deleteCalls[i].name = deleteCalls[j].name => i = j
        /\ \A n \in Deleted(deleteCalls) :
              /\ Cardinality(CallsFor(n, TRUE)) = 1
              /\ Cardinality(CallsFor(n, FALSE)) = 0
        /\ metricReapedTotal - atStart.reaped = Cardinality(Deleted(deleteCalls))
        /\ metricErrorsTotal - atStart.errors
              = Cardinality(DeleteNames \ Deleted(deleteCalls))

\* C17: within a cycle the probe is made only after the listing succeeded
\* and a Delete call only after the listing and the probe both succeeded
\* (the probe returned a vector), and a new cycle begins only at the top of
\* the loop, after the previous cycle has completed.
C17_StepsInOrder ==
    /\ [](probeResult # "none" => ~listFailed)
    /\ [](deleteCalls # <<>>
            => ~listFailed /\ probeResult # "none" /\ ~ProbeFailed)
    /\ [][cycles' # cycles =>
            /\ pc = "select"
            /\ cycles' = cycles + 1
            /\ cycles >= 1 => CycleCompleted]_vars

\* The candidate set as a function of the flags, the cluster contents and
\* the time alone.
CandidateSet(t) ==
    {ns.name : ns \in {i \in Items : Listed(i) /\ PassesFilters(i, t)}}

\* C18: the candidate set getNamespaces returns is determined by the flags,
\* the cluster contents and the time of the call (between the set for the
\* time at the call and the set for the time at the return when the clock
\* advanced meanwhile), so a second call with the same inputs gives the same
\* set whatever happened before; and the call, failed or not, changes
\* neither the cluster nor the flags nor the counters and makes no Delete
\* call.
C18_SelectorIsIdempotent ==
    /\ [][SelectorActed =>
            /\ CandidateSet(now) \subseteq Range(namespaces')
            /\ Range(namespaces') \subseteq CandidateSet(now')]_vars
    /\ [][cycles' # cycles =>
            /\ cluster' = cluster
            /\ deleteCalls' = <<>>
            /\ UNCHANGED <<config, metricReapedTotal, metricErrorsTotal>>]_vars

\* The second call in a process, on a cluster from which the first cycle
\* deleted nothing, returns candidates and the clock did not advance during
\* the call.
C18_Witness ==
    /\ pc = "probe"
    /\ cycles = 2
    /\ cluster = InitialCluster
    /\ Candidates # {}
    /\ Candidates = CandidateSet(now)

\* ns carries a label that is a non-empty element of the configured list.
MatchesConfiguredLabel(ns) ==
    \E l \in Range(Split(namespaceLabels)) : l # <<>> /\ l \in ns.labels

MatchesConfiguredPattern(ns) ==
    namespaceRegexp # <<>> /\ MatchString(namespaceRegexp, ns.name)

\* C19: under a configuration that validateArgs accepted, every candidate
\* carries one of the non-empty configured labels or matches the configured
\* pattern; no element of the label list makes a namespace a candidate that
\* does neither.
C19_ScopeNeverEmpty ==
    pc = "probe" =>
        \A ns \in Items :
            ns.name \in Candidates
                => MatchesConfiguredLabel(ns) \/ MatchesConfiguredPattern(ns)

LoopPhases == {"select", "probe", "reap", "finish", "sleep"}

\* C20: the HTTP goroutine is there in every phase of the loop; its failure
\* can end the process in each of these phases, with exit status 1, and
\* that step changes neither the counters, the gauge, the cluster nor the
\* flags.
C20_MetricsTaskOnlyExits ==
    /\ [](pc \in LoopPhases => httpUp /\ ENABLED ListenAndServeFails)
    /\ [](exitBy = "http" => pc = "exited" /\ exitCode = 1)
    /\ [][exitBy # "http" /\ exitBy' = "http" =>
            /\ pc \in LoopPhases
            /\ UNCHANGED <<config, cluster, metrics, progress>>]_vars

\* The listener failed during or after a cycle whose probe had returned and
\* that had deleted a namespace.
C20_Witness ==
    /\ exitBy = "http"
    /\ exitCode = 1
    /\ cycles >= 1
    /\ probeResult = "vector"
    /\ metricReapedTotal > 0

====
